---------------------------- MODULE Spec2Model ----------------------------
(***************************************************************************)
(* Model of the SDVX Asphyxia -> Kamaitachi score converter (src/main.py). *)
(*                                                                         *)
(* JSON values are tagged records [k, n, s]:                               *)
(*   k = "absent"  the key is not in the mapping                           *)
(*   k = "null"    JSON null (Python None)                                 *)
(*   k = "int"     a JSON integer, n its value                             *)
(*   k = "float"   a JSON real, n its value in tenths (n = 5 is 0.5)       *)
(*   k = "str"     a JSON string, s its characters                         *)
(* Strings that the code coerces are sequences of one-character strings,   *)
(* so that int(...) and str(...) are computed digit by digit.              *)
(* Python integers are unbounded; the model keeps every number below 2^31. *)
(***************************************************************************)
EXTENDS Integers, Sequences, FiniteSets, TLC

VARIABLES
    db,              \* the database file: [readable, lines]
    profile_id,      \* ASPHYXIA_PROFILE_ID
    preserve_fails,  \* PRESERVE_FAILS
    pc,              \* position of main()
    parsed,          \* load_plays_database: data_points, the lines parsed so far
    data_points,     \* main: data_points (the plays the loader returned)
    plays_for_user,  \* main: plays_for_user
    play_idx,        \* main: number of plays the conversion loop has consumed
    score_results,   \* main: score_results
    result,          \* main: result, <<>> until it is built
    out_file,        \* the output file: [exists, content, complete]
    log,             \* the records the logger has emitted in this run
    run,             \* 1 for the first run of the program, 2 for the second
    first_result,    \* result as the first run left it (<<>> if it built none)
    first_log,       \* log as the first run left it
    file_at_start,   \* the output file as it was when the current run started
    u_play,          \* convert_play called on its own: the argument
    u_out,           \* convert_play called on its own: the outcome
    u_done           \* convert_play called on its own: has it been called

pipeline_vars == <<db, profile_id, preserve_fails, pc, parsed, data_points,
                   plays_for_user, play_idx, score_results, result, out_file,
                   log, run, first_result, first_log, file_at_start>>
unit_vars == <<u_play, u_out, u_done>>
vars == <<db, profile_id, preserve_fails, pc, parsed, data_points,
          plays_for_user, play_idx, score_results, result, out_file,
          log, run, first_result, first_log, file_at_start, u_play, u_out, u_done>>

----------------------------------------------------------------------------
(* Bounds of the model *)

MaxLines == 3        \* lines in the database file
MaxCode == 7         \* clear and difficulty codes are drawn from -1..MaxCode

----------------------------------------------------------------------------
(* JSON values *)

Absent == [k |-> "absent", n |-> 0, s |-> <<>>]
Null == [k |-> "null", n |-> 0, s |-> <<>>]
I(n) == [k |-> "int", n |-> n, s |-> <<>>]
F(tenths) == [k |-> "float", n |-> tenths, s |-> <<>>]
S(chars) == [k |-> "str", n |-> 0, s |-> chars]

DigitChars == <<"0", "1", "2", "3", "4", "5", "6", "7", "8", "9">>
Digits == {DigitChars[i] : i \in 1..10}
DigitVal(c) == CHOOSE d \in 0..9 : DigitChars[d + 1] = c

(* float -> int truncates toward zero *)
Trunc(tenths) == IF tenths >= 0 THEN tenths \div 10 ELSE -((-tenths) \div 10)

(* the digits of a string after an optional sign *)
NumeralBody(s) == IF Len(s) > 0 /\ s[1] \in {"-", "+"} THEN Tail(s) ELSE s
IsNumeral(s) == LET b == NumeralBody(s)
                IN  Len(b) > 0 /\ \A i \in 1..Len(b) : b[i] \in Digits

RECURSIVE DigitsValue(_)
DigitsValue(b) == IF Len(b) = 0 THEN 0
                  ELSE 10 * DigitsValue(SubSeq(b, 1, Len(b) - 1)) + DigitVal(b[Len(b)])

ParseInt(s) == IF Len(s) > 0 /\ s[1] = "-" THEN -DigitsValue(NumeralBody(s))
               ELSE DigitsValue(NumeralBody(s))

RECURSIVE NatStr(_)
NatStr(n) == IF n < 10 THEN <<DigitChars[n + 1]>>
             ELSE NatStr(n \div 10) \o <<DigitChars[(n % 10) + 1]>>

IntStr(n) == IF n < 0 THEN <<"-">> \o NatStr(-n) ELSE NatStr(n)

FloatStr(tenths) ==
    LET a == IF tenths < 0 THEN -tenths ELSE tenths
    IN  (IF tenths < 0 THEN <<"-">> ELSE <<>>)
        \o NatStr(a \div 10) \o <<".">> \o NatStr(a % 10)

(* int(v): the exception it raises ("" when none), and its value *)
IntExc(v) == CASE v.k = "null" -> "TypeError"
               [] v.k = "str" /\ ~IsNumeral(v.s) -> "ValueError"
               [] OTHER -> ""
IntVal(v) == CASE v.k = "int" -> v.n
               [] v.k = "float" -> Trunc(v.n)
               [] v.k = "str" /\ IsNumeral(v.s) -> ParseInt(v.s)
               [] OTHER -> 0

(* str(v); it raises nothing *)
StrVal(v) == CASE v.k = "int" -> IntStr(v.n)
               [] v.k = "float" -> FloatStr(v.n)
               [] v.k = "str" -> v.s
               [] OTHER -> <<"N", "o", "n", "e">>

(* d[key]: KeyError when the key is absent *)
KeyExc(v) == IF v.k = "absent" THEN "KeyError" ELSE ""

(* v > 0: TypeError for None and for strings *)
GtZeroExc(v) == IF v.k \in {"null", "str"} THEN "TypeError" ELSE ""
GtZero(v) == v.k \in {"int", "float"} /\ v.n > 0

(* key in MAP, for a mapping with integer keys: a float equal to a key hashes alike *)
IsKey(v, keys) == \/ v.k = "int" /\ v.n \in keys
                  \/ v.k = "float" /\ v.n % 10 = 0 /\ (v.n \div 10) \in keys
KeyOf(v) == IF v.k = "float" THEN v.n \div 10 ELSE v.n

FirstExc(es) == IF \E i \in 1..Len(es) : es[i] # ""
                THEN es[CHOOSE i \in 1..Len(es) :
                          es[i] # "" /\ \A j \in 1..(i - 1) : es[j] = ""]
                ELSE ""

----------------------------------------------------------------------------
(* The fixed tables *)

META == [game |-> "sdvx", playtype |-> "Single", service |-> "Asphyxia"]

CLEAR_TYPE_MAP == <<"FAILED", "CLEAR", "EXCESSIVE CLEAR", "ULTIMATE CHAIN",
                    "PERFECT ULTIMATE CHAIN", "MAXXIVE CLEAR">>

DIFFICULTY_MAP == (0 :> "NOV") @@ (1 :> "ADV") @@ (2 :> "EXH")
                  @@ (3 :> "ANY_INF") @@ (4 :> "MXM")

----------------------------------------------------------------------------
(* convert_play *)

(* exscore = int(play["exscore"]) if play.get("exscore", 0) > 0 else None *)
ExscoreGet(play) == IF play.exscore.k = "absent" THEN I(0) ELSE play.exscore
ExscoreExc(play) == FirstExc(<<GtZeroExc(ExscoreGet(play)),
                               IF GtZero(ExscoreGet(play)) THEN IntExc(play.exscore) ELSE "">>)
(* <<>> is None *)
Exscore(play) == IF GtZero(ExscoreGet(play)) THEN <<IntVal(play.exscore)>> ELSE <<>>

(* int(play["createdAt"]["$$date"]) *)
DateExc(c) == CASE c.k = "absent" -> "KeyError"
                [] c.k = "scalar" -> "TypeError"
                [] OTHER -> FirstExc(<<KeyExc(c.date), IntExc(c.date)>>)

(* lines 80-83 and 86: the first exception the extraction raises *)
ExtractExc(play) ==
    FirstExc(<<KeyExc(play.score), IntExc(play.score), ExscoreExc(play),
               KeyExc(play.mid), DateExc(play.createdAt), KeyExc(play.clear)>>)

(* lines 100-112: the output mapping *)
HasOptional(exscore) == exscore # <<>> /\ exscore[1] > 0

BuildOutput(play) ==
    LET exscore == Exscore(play)
        lamp == CLEAR_TYPE_MAP[KeyOf(play.clear)]
        difficulty == DIFFICULTY_MAP[KeyOf(play.type)]
    IN  IF HasOptional(exscore)
        THEN [matchType |-> "sdvxInGameID", identifier |-> StrVal(play.mid),
              score |-> IntVal(play.score), lamp |-> lamp,
              difficulty |-> difficulty, timeAchieved |-> IntVal(play.createdAt.date),
              optional |-> [exScore |-> exscore[1]]]
        ELSE [matchType |-> "sdvxInGameID", identifier |-> StrVal(play.mid),
              score |-> IntVal(play.score), lamp |-> lamp,
              difficulty |-> difficulty, timeAchieved |-> IntVal(play.createdAt.date)]

Return(ret, logged) == [kind |-> "return", ret |-> ret, exc |-> "", log |-> logged]
Raise(exc) == [kind |-> "raise", ret |-> <<>>, exc |-> exc, log |-> ""]

(* the body of the try block; ret = <<>> is None, ret = <<out>> is a mapping *)
convert_body(play) ==
    IF ExtractExc(play) # "" THEN Raise(ExtractExc(play))
    ELSE IF ~IsKey(play.clear, DOMAIN CLEAR_TYPE_MAP) THEN Return(<<>>, "warning")
    ELSE IF play.type.k = "absent" THEN Raise("KeyError")
    ELSE IF ~IsKey(play.type, DOMAIN DIFFICULTY_MAP)
         THEN IF play.difficulty.k = "absent" THEN Raise("KeyError")
              ELSE Return(<<>>, "warning")
    ELSE Return(<<BuildOutput(play)>>, "")

(* a handler that names the coercion errors only *)
CatchesCoercionOnly(exc) == exc \in {"TypeError", "ValueError"}

(* except Exception *)
Catches(exc) == TRUE

convert_play(play) ==
    LET r == convert_body(play)
    IN  IF r.kind = "raise" /\ Catches(r.exc) THEN Return(<<>>, "error") ELSE r

----------------------------------------------------------------------------
(* load_plays_database and filter_user_scores *)

(* A line of the database file: kind "bad" is not valid JSON, "scalar" is a *)
(* valid JSON value that is no object, "obj" is a JSON object.  The fields  *)
(* collection, refid (__refid) and src (__s) are <<>> when the key is       *)
(* missing and <<value>> otherwise.                                          *)

(* the filter with play.get("collection", "music"): a missing key counts as music *)
RECURSIVE music_plays_default(_)
music_plays_default(points) ==
    IF points = <<>> THEN <<>>
    ELSE IF Head(points).collection \in {<<>>, <<"music">>}
         THEN <<Head(points)>> \o music_plays_default(Tail(points))
         ELSE music_plays_default(Tail(points))

(* plays = [play for play in data_points if play.get("collection", None) == "music"] *)
RECURSIVE music_plays(_)
music_plays(points) ==
    IF points = <<>> THEN <<>>
    ELSE IF Head(points).collection = <<"music">>
         THEN <<Head(points)>> \o music_plays(Tail(points))
         ELSE music_plays(Tail(points))

(* the if clause with "or" for "and" *)
user_match_either(point, pid) == point.refid = <<pid>> \/ point.src = <<"plugins_profile">>

(* the if clause of line 70 *)
user_match(point, pid) == point.refid = <<pid>> /\ point.src = <<"plugins_profile">>

RECURSIVE filter_user_scores(_, _)
filter_user_scores(scores, pid) ==
    IF scores = <<>> THEN <<>>
    ELSE IF user_match(Head(scores), pid)
         THEN <<Head(scores)>> \o filter_user_scores(Tail(scores), pid)
         ELSE filter_user_scores(Tail(scores), pid)

----------------------------------------------------------------------------
(* save_results *)

(* output_path.open("w") truncates; json.dump then writes the document *)
written_file(doc) == [exists |-> TRUE, content |-> <<doc>>, complete |-> TRUE]
truncated_file == [exists |-> TRUE, content |-> <<>>, complete |-> FALSE]

(* the file opened with "a": what it held is kept *)
save_results_append(file, doc, outcome) ==
    CASE outcome = "ok" -> [exists |-> TRUE, content |-> file.content \o <<doc>>,
                            complete |-> TRUE]
      [] outcome = "open_fail" -> file
      [] OTHER -> [exists |-> TRUE, content |-> file.content, complete |-> FALSE]

(* outcome "ok": written; "open_fail": open raised, the file is untouched;  *)
(* "dump_fail": the file was opened (truncated) and the write raised        *)
save_results(file, doc, outcome) ==
    CASE outcome = "ok" -> written_file(doc)
      [] outcome = "open_fail" -> file
      [] OTHER -> truncated_file

SaveOutcomes == {"ok", "open_fail", "dump_fail"}

----------------------------------------------------------------------------
(* Inputs *)

Chars(n) == IntStr(n)

(* a createdAt wrapper; the timestamp is kept below 2^31 *)
GoodDate == [k |-> "obj", date |-> I(1700000000)]

PlayClear == [score |-> I(9000000), exscore |-> I(0), mid |-> S(Chars(42)),
              createdAt |-> GoodDate, clear |-> I(2), type |-> I(0),
              difficulty |-> Absent]
PlayFailed == [score |-> I(8000000), exscore |-> I(120), mid |-> I(7),
               createdAt |-> GoodDate, clear |-> I(1), type |-> I(4),
               difficulty |-> Absent]
PlayUnknownClear == [PlayClear EXCEPT !.clear = I(9), !.mid = I(8)]
PlayNoScore == [PlayClear EXCEPT !.score = Absent, !.mid = I(9)]

Obj(collection, refid, src, play) ==
    [kind |-> "obj", collection |-> collection, refid |-> refid, src |-> src,
     play |-> play]

ProfileIds == {"ACA11374C2D83E9A"}

Lines ==
    { [kind |-> "bad", collection |-> <<>>, refid |-> <<>>, src |-> <<>>, play |-> PlayClear],
      [kind |-> "scalar", collection |-> <<>>, refid |-> <<>>, src |-> <<>>, play |-> PlayClear],
      Obj(<<"music">>, <<"ACA11374C2D83E9A">>, <<"plugins_profile">>, PlayClear),
      Obj(<<"music">>, <<"ACA11374C2D83E9A">>, <<"plugins_profile">>, PlayFailed),
      Obj(<<"music">>, <<"ACA11374C2D83E9A">>, <<"plugins_profile">>, PlayUnknownClear),
      Obj(<<"music">>, <<"ACA11374C2D83E9A">>, <<"plugins_profile">>, PlayNoScore),
      Obj(<<"music">>, <<"U1">>, <<"plugins_profile">>, PlayFailed),
      Obj(<<"music">>, <<"ACA11374C2D83E9A">>, <<"plugins">>, PlayClear),
      Obj(<<"profile">>, <<"ACA11374C2D83E9A">>, <<"plugins_profile">>, PlayClear),
      Obj(<<>>, <<"ACA11374C2D83E9A">>, <<"plugins_profile">>, PlayClear) }

Files == UNION {[1..n -> Lines] : n \in 0..MaxLines}

StaleDoc == [meta |-> META, scores |-> <<BuildOutput(PlayFailed)>>]
(* the output file before the first run: left by an earlier conversion *)
InitialFiles == {written_file(StaleDoc)}

(* the records convert_play is called on when it is exercised on its own *)
Codes == {Absent, Null, S(Chars(2)), F(20), F(25)} \cup {I(c) : c \in -1..MaxCode}
Plays ==
    [score : {Absent, Null, I(9000000), F(95), S(Chars(123)), S(<<"1", "x">>)},
     exscore : {Absent, Null, I(0), I(120), I(-3), F(5), F(25), S(Chars(7))},
     mid : {Absent, I(42), S(Chars(42))},
     createdAt : {[k |-> "absent", date |-> Absent], [k |-> "scalar", date |-> Absent],
                  [k |-> "obj", date |-> Absent], GoodDate,
                  [k |-> "obj", date |-> S(<<"-", "5">>)]},
     clear : Codes,
     type : Codes,
     difficulty : {Absent, I(0)}]

----------------------------------------------------------------------------
(* main *)

Info(msg) == [level |-> "INFO", msg |-> msg]
Warning(msg) == [level |-> "WARNING", msg |-> msg]
Error(msg) == [level |-> "ERROR", msg |-> msg]

PipelineInit ==
    /\ db \in {[readable |-> FALSE, lines |-> <<>>]}
              \cup {[readable |-> TRUE, lines |-> f] : f \in Files}
    /\ profile_id \in ProfileIds
    /\ preserve_fails \in BOOLEAN
    /\ pc = "Start"
    /\ parsed = <<>>
    /\ data_points = <<>>
    /\ plays_for_user = <<>>
    /\ play_idx = 0
    /\ score_results = <<>>
    /\ result = <<>>
    /\ out_file \in InitialFiles
    /\ log = <<>>
    /\ run = 1
    /\ first_result = <<>>
    /\ first_log = <<>>
    /\ file_at_start = out_file

UnitIdle ==
    /\ u_play = PlayClear
    /\ u_out = Return(<<>>, "")
    /\ u_done = FALSE

Init == PipelineInit /\ UnitIdle

(* lines 132-138 *)
Begin ==
    /\ pc = "Start"
    /\ log' = log \o <<Info("Config"), Info("Starting scores conversion")>>
    /\ pc' = "Load"
    /\ UNCHANGED <<db, profile_id, preserve_fails, parsed, data_points,
                   plays_for_user, play_idx, score_results, result, out_file,
                   run, first_result, first_log, file_at_start>>
    /\ UNCHANGED unit_vars

(* handlers that log and return: main goes on to the filter *)
LoadErrorSwallowed == "Filter"

(* lines 58-63: both handlers log and raise again, which ends main *)
LoadErrorPc == "Aborted"

(* db_path.open raises: logged by the second handler and raised again *)
LoadOpenFails ==
    /\ pc = "Load"
    /\ ~db.readable
    /\ log' = Append(log, Error("Error loading database"))
    /\ pc' = LoadErrorPc
    /\ UNCHANGED <<db, profile_id, preserve_fails, parsed, data_points,
                   plays_for_user, play_idx, score_results, result, out_file,
                   run, first_result, first_log, file_at_start>>
    /\ UNCHANGED unit_vars

(* one iteration of [json.loads(line) for line in db_file] *)
LoadParseLine ==
    /\ pc = "Load"
    /\ db.readable
    /\ Len(parsed) < Len(db.lines)
    /\ LET line == db.lines[Len(parsed) + 1]
       IN  IF line.kind = "bad"
           THEN /\ log' = Append(log, Warning("Invalid JSON format in database file"))
                /\ pc' = LoadErrorPc
                /\ UNCHANGED parsed
           ELSE /\ parsed' = Append(parsed, line)
                /\ UNCHANGED <<log, pc>>
    /\ UNCHANGED <<db, profile_id, preserve_fails, data_points,
                   plays_for_user, play_idx, score_results, result, out_file,
                   run, first_result, first_log, file_at_start>>
    /\ UNCHANGED unit_vars

(* line 55 and the return: play.get raises AttributeError on a value that is no object *)
LoadSelect ==
    /\ pc = "Load"
    /\ db.readable
    /\ Len(parsed) = Len(db.lines)
    /\ IF \E i \in 1..Len(parsed) : parsed[i].kind = "scalar"
       THEN /\ log' = Append(log, Error("Error loading database"))
            /\ pc' = LoadErrorPc
            /\ UNCHANGED data_points
       ELSE /\ data_points' = music_plays(parsed)
            /\ pc' = "Filter"
            /\ UNCHANGED log
    /\ UNCHANGED <<db, profile_id, preserve_fails, parsed,
                   plays_for_user, play_idx, score_results, result, out_file,
                   run, first_result, first_log, file_at_start>>
    /\ UNCHANGED unit_vars

(* line 142, and line 145 *)
Filter ==
    /\ pc = "Filter"
    /\ plays_for_user' = filter_user_scores(data_points, profile_id)
    /\ log' = Append(log, Info("Found scores for user"))
    /\ score_results' = <<>>
    /\ play_idx' = 0
    /\ pc' = "Convert"
    /\ UNCHANGED <<db, profile_id, preserve_fails, parsed, data_points,
                   result, out_file, run, first_result, first_log, file_at_start>>
    /\ UNCHANGED unit_vars

(* if score_info: a mapping is true when it is not empty *)
Truthy(ret) == ret # <<>> /\ DOMAIN ret[1] # {}

(* the policy with the flag ignored *)
keeps_all(flag, score_info) == TRUE

(* line 150 *)
keeps(flag, score_info) == flag \/ score_info.lamp # "FAILED"

(* lines 147-151 for one score_info *)
appended(results, ret, flag) ==
    IF Truthy(ret) /\ keeps(flag, ret[1]) THEN Append(results, ret[1]) ELSE results

ConvertLog(r) == CASE r.log = "warning" -> <<Warning("Unknown code")>>
                   [] r.log = "error" -> <<Error("Error converting play")>>
                   [] OTHER -> <<>>

(* one iteration of the loop of lines 146-151 *)
ConvertNext ==
    /\ pc = "Convert"
    /\ play_idx < Len(plays_for_user)
    /\ LET r == convert_play(plays_for_user[play_idx + 1].play)
       IN  IF r.kind = "raise"
           THEN /\ pc' = "Crashed"
                /\ UNCHANGED <<score_results, log>>
           ELSE /\ score_results' = appended(score_results, r.ret, preserve_fails)
                /\ log' = log \o ConvertLog(r)
                /\ UNCHANGED pc
    /\ play_idx' = play_idx + 1
    /\ UNCHANGED <<db, profile_id, preserve_fails, parsed, data_points,
                   plays_for_user, result, out_file, run, first_result, first_log, file_at_start>>
    /\ UNCHANGED unit_vars

(* the loop ends; line 153 *)
ConvertDone ==
    /\ pc = "Convert"
    /\ play_idx = Len(plays_for_user)
    /\ log' = Append(log, Info("Conversion resulted in valid scores"))
    /\ pc' = "Aggregate"
    /\ UNCHANGED <<db, profile_id, preserve_fails, parsed, data_points,
                   plays_for_user, play_idx, score_results, result, out_file,
                   run, first_result, first_log, file_at_start>>
    /\ UNCHANGED unit_vars

(* lines 156-159 *)
Aggregate ==
    /\ pc = "Aggregate"
    /\ result' = <<[meta |-> META, scores |-> score_results]>>
    /\ pc' = "Write"
    /\ UNCHANGED <<db, profile_id, preserve_fails, parsed, data_points,
                   plays_for_user, play_idx, score_results, out_file, log,
                   run, first_result, first_log, file_at_start>>
    /\ UNCHANGED unit_vars

(* lines 162-164: save_results never raises, main logs completion *)
Save ==
    /\ pc = "Write"
    /\ \E outcome \in SaveOutcomes :
          /\ out_file' = save_results(out_file, result[1], outcome)
          /\ log' = log \o <<IF outcome = "ok" THEN Info("File saved")
                             ELSE Error("Error saving results"),
                             Info("Scores conversion complete")>>
    /\ pc' = "End"
    /\ UNCHANGED <<db, profile_id, preserve_fails, parsed, data_points,
                   plays_for_user, play_idx, score_results, result,
                   run, first_result, first_log, file_at_start>>
    /\ UNCHANGED unit_vars

(* the program is started again on the same database and configuration *)
Rerun ==
    /\ pc \in {"End", "Aborted"}
    /\ run = 1
    /\ run' = 2
    /\ first_result' = result
    /\ first_log' = log
    /\ file_at_start' = out_file
    /\ pc' = "Start"
    /\ parsed' = <<>>
    /\ data_points' = <<>>
    /\ plays_for_user' = <<>>
    /\ play_idx' = 0
    /\ score_results' = <<>>
    /\ result' = <<>>
    /\ log' = <<>>
    /\ UNCHANGED <<db, profile_id, preserve_fails, out_file>>
    /\ UNCHANGED unit_vars

Next ==
    \/ Begin
    \/ LoadOpenFails
    \/ LoadParseLine
    \/ LoadSelect
    \/ Filter
    \/ ConvertNext
    \/ ConvertDone
    \/ Aggregate
    \/ Save
    \/ Rerun

Spec == Init /\ [][Next]_vars

----------------------------------------------------------------------------
(* convert_play on its own, on every record of Plays *)

PipelineIdle ==
    /\ db = [readable |-> TRUE, lines |-> <<>>]
    /\ profile_id = "ACA11374C2D83E9A"
    /\ preserve_fails = TRUE
    /\ pc = "Start"
    /\ parsed = <<>>
    /\ data_points = <<>>
    /\ plays_for_user = <<>>
    /\ play_idx = 0
    /\ score_results = <<>>
    /\ result = <<>>
    /\ out_file = written_file(StaleDoc)
    /\ log = <<>>
    /\ run = 1
    /\ first_result = <<>>
    /\ first_log = <<>>
    /\ file_at_start = out_file

ConvertInit ==
    /\ PipelineIdle
    /\ u_play \in Plays
    /\ u_out = Return(<<>>, "")
    /\ u_done = FALSE

ConvertCall ==
    /\ ~u_done
    /\ u_out' = convert_play(u_play)
    /\ u_done' = TRUE
    /\ UNCHANGED u_play
    /\ UNCHANGED pipeline_vars

ConvertNextStep == ConvertCall

ConvertSpec == ConvertInit /\ [][ConvertNextStep]_vars

----------------------------------------------------------------------------
(* Properties of convert_play (checked under ConvertSpec) *)

ClearCodes == 1..6
DifficultyCodes == 0..4

(* the labels as the specification documents them *)
DocumentedLamp(c) == CASE c = 1 -> "FAILED"
                       [] c = 2 -> "CLEAR"
                       [] c = 3 -> "EXCESSIVE CLEAR"
                       [] c = 4 -> "ULTIMATE CHAIN"
                       [] c = 5 -> "PERFECT ULTIMATE CHAIN"
                       [] c = 6 -> "MAXXIVE CLEAR"
DocumentedDifficulty(c) == CASE c = 0 -> "NOV"
                             [] c = 1 -> "ADV"
                             [] c = 2 -> "EXH"
                             [] c = 3 -> "ANY_INF"
                             [] c = 4 -> "MXM"

BaseFields == {"matchType", "identifier", "score", "lamp", "difficulty", "timeAchieved"}

(* score, song identifier and creation timestamp are present and coercible *)
RequiredCoercible(play) ==
    /\ KeyExc(play.score) = "" /\ IntExc(play.score) = ""
    /\ KeyExc(play.mid) = ""
    /\ DateExc(play.createdAt) = ""

(* the source secondary score is defined and strictly positive *)
SecondaryPositive(play) == play.exscore.k \in {"int", "float"} /\ play.exscore.n > 0

(* the record is convertible once its secondary score is left out *)
OtherwiseConvertible(play) == convert_play([play EXCEPT !.exscore = Absent]).ret # <<>>

(* C1: every record whose score, song identifier and timestamp are present  *)
(* and coercible, whose clear code is in 1..6 and whose difficulty code is  *)
(* in 0..4 converts to a record with exactly the documented fields, plus    *)
(* the optional block only when the secondary score is positive.            *)
C1_ConvertContract ==
    (u_done /\ RequiredCoercible(u_play)
            /\ IsKey(u_play.clear, ClearCodes) /\ IsKey(u_play.type, DifficultyCodes))
    => /\ u_out.kind = "return"
       /\ u_out.ret # <<>>
       /\ LET out == u_out.ret[1]
          IN  /\ BaseFields \subseteq DOMAIN out
              /\ DOMAIN out \subseteq BaseFields \cup {"optional"}
              /\ out.matchType = "sdvxInGameID"
              /\ out.identifier = StrVal(u_play.mid)
              /\ out.score = IntVal(u_play.score)
              /\ out.lamp = DocumentedLamp(KeyOf(u_play.clear))
              /\ out.difficulty = DocumentedDifficulty(KeyOf(u_play.type))
              /\ out.timeAchieved = IntVal(u_play.createdAt.date)
              /\ ("optional" \in DOMAIN out => SecondaryPositive(u_play))

(* C2: a record that converts carries the documented label of its clear     *)
(* code (1..6) and of its difficulty code (0..4); a record whose clear code *)
(* or difficulty code is outside those sets yields no result; and           *)
(* convert_play never lets an exception out, whatever the record carries.   *)
C2_EnumTables ==
    u_done =>
       /\ u_out.kind = "return"
       /\ (~IsKey(u_play.clear, ClearCodes) \/ ~IsKey(u_play.type, DifficultyCodes))
             => u_out.ret = <<>>
       /\ u_out.ret # <<>> =>
             /\ u_out.ret[1].lamp = DocumentedLamp(KeyOf(u_play.clear))
             /\ u_out.ret[1].difficulty = DocumentedDifficulty(KeyOf(u_play.type))

(* an unknown difficulty code on a record without a "difficulty" key: the   *)
(* warning's own lookup raises, and the record is still only skipped        *)
C2_Witness ==
    /\ u_done
    /\ RequiredCoercible(u_play)
    /\ u_play.clear = I(6)
    /\ u_play.type = I(5)
    /\ u_play.difficulty = Absent
    /\ u_out = Return(<<>>, "error")

(* C3: a record that is otherwise convertible is converted, and carries the *)
(* optional block, with exScore equal to the source secondary score, if and *)
(* only if that score is defined and strictly positive.                     *)
C3_OptionalFieldLaw ==
    (u_done /\ OtherwiseConvertible(u_play))
    => /\ u_out.ret # <<>>
       /\ ("optional" \in DOMAIN u_out.ret[1]) <=> SecondaryPositive(u_play)
       /\ "optional" \in DOMAIN u_out.ret[1] =>
             I(u_out.ret[1].optional.exScore) = u_play.exscore

----------------------------------------------------------------------------
(* Properties of the pipeline (checked under Spec) *)

PastLoad == pc \in {"Filter", "Convert", "Aggregate", "Write", "End"}
PastFilter == pc \in {"Convert", "Aggregate", "Write", "End"}
LoopDone == pc \in {"Aggregate", "Write", "End"}

Logged(l, entry) == \E i \in 1..Len(l) : l[i] = entry
Saved(l) == Logged(l, Info("File saved"))
SaveFailed(l) == Logged(l, Error("Error saving results"))
Count(l, entries) == Cardinality({i \in 1..Len(l) : l[i] \in entries})

(* what convert_play returns for a filtered record *)
Converted(point) == convert_play(point.play).ret

(* C4: with the flag false the scores hold no FAILED record and hold every  *)
(* other converted record; with the flag true they hold every converted     *)
(* record, FAILED ones included; the records kept are in input order.       *)
C4_FailPreservation ==
    LoopDone =>
       LET retained == SelectSeq(plays_for_user,
                          LAMBDA p : /\ Converted(p) # <<>>
                                     /\ preserve_fails \/ Converted(p)[1].lamp # "FAILED")
       IN  /\ score_results = [i \in 1..Len(retained) |-> Converted(retained[i])[1]]
           /\ ~preserve_fails =>
                 \A i \in 1..Len(score_results) : score_results[i].lamp # "FAILED"
           /\ preserve_fails =>
                 Len(score_results) =
                    Cardinality({i \in 1..Len(plays_for_user) :
                                    Converted(plays_for_user[i]) # <<>>})

(* the flag is false, a FAILED play stands between two plays that are kept *)
C4_Witness ==
    /\ pc = "End"
    /\ ~preserve_fails
    /\ Len(plays_for_user) = 3
    /\ plays_for_user[1].play = PlayClear
    /\ plays_for_user[2].play = PlayFailed
    /\ plays_for_user[3].play = PlayClear
    /\ Len(score_results) = 2

(* C5 as stated: whenever every line is a valid JSON value the load does    *)
(* not fail and returns exactly the values whose collection is "music".     *)
C5_LoaderAnyJsonValue ==
    (db.readable /\ \A i \in 1..Len(db.lines) : db.lines[i].kind # "bad")
    => /\ pc # "Aborted"
       /\ PastLoad => data_points = SelectSeq(db.lines,
                                       LAMBDA l : l.collection = <<"music">>)

(* C5 amended: whenever every line is a valid JSON object the load does not *)
(* fail and returns exactly the objects whose collection is "music", those  *)
(* without a collection excluded, in file order.                            *)
C5_LoaderObjects ==
    (db.readable /\ \A i \in 1..Len(db.lines) : db.lines[i].kind = "obj")
    => /\ pc # "Aborted"
       /\ PastLoad => data_points = SelectSeq(db.lines,
                                       LAMBDA l : l.collection = <<"music">>)

(* a music line between a line without a collection and one of another one *)
C5_Witness ==
    /\ pc = "Filter"
    /\ Len(db.lines) = 3
    /\ db.lines[1].kind = "obj" /\ db.lines[1].collection = <<>>
    /\ db.lines[2].kind = "obj" /\ db.lines[2].collection = <<"music">>
    /\ db.lines[3].kind = "obj" /\ db.lines[3].collection = <<"profile">>
    /\ data_points = <<db.lines[2]>>

(* C6: the filter returns exactly the records whose __refid is the target   *)
(* and whose __s is "plugins_profile", in input order, and raises nothing,  *)
(* also when no record matches.                                             *)
C6_UserFilter ==
    PastFilter =>
       /\ plays_for_user =
             SelectSeq(data_points,
                LAMBDA p : p.refid = <<profile_id>> /\ p.src = <<"plugins_profile">>)
       /\ Logged(log, Info("Found scores for user"))
       /\ (pc = "Convert" /\ play_idx = 0) =>
             log[Len(log)] = Info("Found scores for user")

(* one record matches, one has the owner but another source tag, one has    *)
(* the source tag but another owner                                         *)
C6_Witness ==
    /\ pc = "Convert"
    /\ Len(plays_for_user) = 1
    /\ \E i \in 1..Len(data_points) :
          data_points[i].refid = <<profile_id>> /\ data_points[i].src # <<"plugins_profile">>
    /\ \E i \in 1..Len(data_points) :
          data_points[i].refid # <<profile_id>> /\ data_points[i].src = <<"plugins_profile">>

LoadFails == ~db.readable \/ \E i \in 1..Len(db.lines) : db.lines[i].kind = "bad"
FirstBad == CHOOSE i \in 1..Len(db.lines) :
               /\ db.lines[i].kind = "bad"
               /\ \A j \in 1..(i - 1) : db.lines[j].kind # "bad"

(* C7: when the file cannot be read or a line is not valid JSON, the run    *)
(* never gets past the load: nothing is filtered or converted, the output   *)
(* file is not touched, and the load stops at the first malformed line with *)
(* the error logged and raised.                                             *)
C7_LoadErrorsFatal ==
    LoadFails =>
       /\ pc \in {"Start", "Load", "Aborted"}
       /\ data_points = <<>> /\ plays_for_user = <<>> /\ play_idx = 0
       /\ score_results = <<>> /\ result = <<>>
       /\ out_file = file_at_start
       /\ ~Saved(log) /\ ~SaveFailed(log)
       /\ ~Logged(log, Info("Found scores for user"))
       /\ (pc = "Aborted" /\ db.readable) =>
             /\ Len(parsed) = FirstBad - 1
             /\ log[Len(log)] = Warning("Invalid JSON format in database file")
       /\ (pc = "Aborted" /\ ~db.readable) =>
             /\ parsed = <<>>
             /\ log[Len(log)] = Error("Error loading database")

(* a malformed line after a music line of the target user *)
C7_Witness ==
    /\ pc = "Aborted"
    /\ Len(db.lines) = 3
    /\ db.lines[1].kind = "obj" /\ db.lines[1].collection = <<"music">>
    /\ db.lines[1].refid = <<profile_id>> /\ db.lines[1].src = <<"plugins_profile">>
    /\ db.lines[2].kind = "bad"
    /\ file_at_start.exists

ConvertErrors == {Error("Error converting play"), Warning("Unknown code")}
Skipped == {i \in 1..Len(plays_for_user) : Converted(plays_for_user[i]) = <<>>}
Dropped == {i \in 1..Len(plays_for_user) :
               /\ Converted(plays_for_user[i]) # <<>>
               /\ ~preserve_fails
               /\ Converted(plays_for_user[i])[1].lamp = "FAILED"}

RECURSIVE ExpectedScores(_)
ExpectedScores(n) ==
    IF n = 0 THEN <<>>
    ELSE IF n \in Skipped \cup Dropped THEN ExpectedScores(n - 1)
         ELSE Append(ExpectedScores(n - 1), Converted(plays_for_user[n])[1])

(* C8: no exception of convert_play reaches main; a record whose conversion *)
(* fails is skipped and logged, every record of the batch is still          *)
(* processed, and the document holds exactly the converted records that the *)
(* policy keeps, in input order.                                            *)
C8_PartialFailure ==
    /\ pc # "Crashed"
    /\ pc = "Convert" => /\ play_idx <= Len(plays_for_user)
                         /\ Count(log, ConvertErrors)
                               = Cardinality(Skipped \cap 1..play_idx)
    /\ LoopDone =>
          /\ play_idx = Len(plays_for_user)
          /\ Count(log, ConvertErrors) = Cardinality(Skipped)
          /\ Len(score_results) + Cardinality(Skipped) + Cardinality(Dropped)
                = Len(plays_for_user)
    /\ pc \in {"Write", "End"} =>
          result = <<[meta |-> META, scores |-> ExpectedScores(Len(plays_for_user))]>>
    /\ (pc = "End" /\ Saved(log)) =>
          out_file.content[1].scores = ExpectedScores(Len(plays_for_user))

(* a record without a score and one with an unknown clear code, before a    *)
(* record that converts                                                     *)
C8_Witness ==
    /\ pc = "End"
    /\ Saved(log)
    /\ Len(plays_for_user) = 3
    /\ plays_for_user[1].play = PlayNoScore
    /\ plays_for_user[2].play = PlayUnknownClear
    /\ plays_for_user[3].play = PlayClear
    /\ out_file.content[1].scores = <<BuildOutput(PlayClear)>>

(* C9: the second run on the same database and configuration ends as the    *)
(* first one did and builds the same document; when it saves, the output    *)
(* file holds that document alone, whatever the file held before, and so    *)
(* equals the file a first run that saved left behind.                      *)
C9_Idempotence ==
    run = 2 =>
       /\ pc = "Aborted" => first_result = <<>>
       /\ pc \in {"Write", "End"} => result = first_result
       /\ (pc = "End" /\ Saved(log)) =>
             /\ out_file = written_file(result[1])
             /\ Saved(first_log) => out_file = file_at_start

(* both runs saved a document with scores in it, over a file that existed   *)
C9_Witness ==
    /\ run = 2
    /\ pc = "End"
    /\ Saved(log)
    /\ Saved(first_log)
    /\ Len(result[1].scores) = 2
    /\ out_file = file_at_start

Rank(p) == CASE p = "Start" -> 0
             [] p = "Load" -> 1
             [] p = "Filter" -> 2
             [] p = "Convert" -> 3
             [] p = "Aggregate" -> 4
             [] p = "Write" -> 5
             [] p = "End" -> 6
             [] OTHER -> 7

(* C10 as stated: a run that reaches End has written the output file with   *)
(* the aggregate result.                                                    *)
C10_EndHasWritten ==
    pc = "End" => out_file = written_file(result[1])

(* within one run the stages are taken in the order Start, Load, Filter,    *)
(* Convert, Aggregate, Write, End, only Load and Convert take more than one *)
(* step, and only Load can abort                                            *)
StageOrder ==
    run' = run =>
       \/ pc' = pc /\ pc \in {"Load", "Convert"}
       \/ pc' = "Aborted" /\ pc = "Load"
       \/ pc' # "Aborted" /\ pc # "Aborted" /\ Rank(pc') = Rank(pc) + 1 /\ Rank(pc') < 7

(* the outcome of a run that has ended *)
TerminalOutcome ==
    /\ pc \in {"Start", "Load", "Filter", "Convert", "Aggregate", "Write", "End", "Aborted"}
    /\ pc = "Aborted" => result = <<>> /\ out_file = file_at_start
    /\ pc = "End" =>
          \/ Saved(log) /\ ~SaveFailed(log) /\ out_file = written_file(result[1])
          \/ SaveFailed(log) /\ ~Saved(log) /\ out_file \in {file_at_start, truncated_file}
    /\ pc \notin {"End", "Aborted"} => ENABLED Next

(* C10 amended: the stages of a run are taken in order, none repeated, and  *)
(* every run ends in one of three outcomes: the load aborted; End with the  *)
(* output file holding the aggregate result; or End with the save error     *)
(* logged and the output file left as it was or truncated.                  *)
C10_LinearRun == []TerminalOutcome /\ [][StageOrder]_vars

(* a run reached End although the save failed after truncating the file *)
C10_Witness ==
    /\ pc = "End"
    /\ SaveFailed(log)
    /\ out_file = truncated_file
    /\ file_at_start.complete
    /\ Len(result[1].scores) > 0

=============================================================================
